---- MODULE Spec2Model ----
(***************************************************************************)
(* Model of the candidate-evaluation pipeline of PerformanceEvalTool:      *)
(*   ml_models/evaluation/candidate_evaluator.py  (CandidateEvaluator)      *)
(*   ml_models/resume_analysis/resume_analyzer.py (ResumeAnalyzer)          *)
(*   ml_models/video_analysis/video_analyzer.py   (VideoAnalyzer)           *)
(*                                                                         *)
(* Real numbers are fixed-point integers: the score 1.0 is One, so 0.64    *)
(* is 6400.  Python's float division becomes integer division of scaled    *)
(* numerators, rounded down to a multiple of 0.0001.                       *)
(* Python dicts are functions over string keys, {} is the function with    *)
(* the empty domain, and None is the record PyNone.                         *)
(***************************************************************************)
EXTENDS Integers, Sequences, FiniteSets, TLC

VARIABLES
    current_evaluation,  \* CandidateEvaluator.current_evaluation (the session)
    model,               \* CandidateEvaluator.model (the trained aggregator or None)
    disk,                \* the model artifacts (*.joblib) on disk, per scorer
    op,                  \* the operation that ran last
    ret,                 \* what that operation returned
    raised,              \* TRUE iff that operation raised instead of returning
    lazy_evals,          \* aggregations run by get_evaluation_state since the last reset
    call_complete,       \* TRUE iff that operation was an evaluate_candidate call
                         \* that supplied the resume, the cgpa and the video
    supplied,            \* the inputs handed over one at a time (SpecOrder)
    input,               \* what the last scorer or function call was given
                         \* (SpecScorers, SpecFunctions)
    reader               \* the frame of a get_evaluation_state call that runs
                         \* beside other calls (SpecThreads)

vars == <<current_evaluation, model, disk, op, ret, raised, lazy_evals,
          call_complete, supplied, input, reader>>

-----------------------------------------------------------------------------
(* Numbers *)

One == 10000

Min(a, b) == IF a <= b THEN a ELSE b

Max(a, b) == IF a >= b THEN a ELSE b

Abs(a) == IF a >= 0 THEN a ELSE 0 - a

\* a / b for two numbers of the same scale, as a fixed-point number
Ratio(a, b) == (a * One) \div b

\* w * x for two fixed-point numbers
Mul(w, x) == (w * x) \div One

RECURSIVE SumSeq(_)
SumSeq(s) == IF s = <<>> THEN 0 ELSE Head(s) + SumSeq(Tail(s))

-----------------------------------------------------------------------------
(* Python values *)

PyNone == [py_none |-> TRUE]

EmptyDict == [k \in {} |-> 0]

\* d.get(k, default)
Get(d, k, default) == IF k \in DOMAIN d THEN d[k] ELSE default

\* a float and a path string, boxed so that they compare with None and dicts
Float(n) == [float |-> n]

Path(p) == [path |-> p]

\* bool(x) for x a dict, a path string or None
Truthy(x) == x # PyNone /\ x # Path("") /\ x # EmptyDict

-----------------------------------------------------------------------------
(* Trained models: objects with a predict(features) call.  A model is what  *)
(* joblib.load returned; predict is the library's, so its behaviours are    *)
(* enumerated: a regressor that averages its inputs, regressors that answer *)
(* a constant outside [0,1], and one whose predict raises (for instance on  *)
(* a feature vector of the wrong length).                                   *)

AveragingModel == [kind |-> "averaging"]

HighModel == [kind |-> "constant", value |-> One + 2500]

LowModel == [kind |-> "constant", value |-> 0 - 2500]

FaultyModel == [kind |-> "faulty"]

Models == {AveragingModel, HighModel, LowModel, FaultyModel}

\* model.predict([features])[0]
ModelPredict(m, features) ==
    CASE m.kind = "faulty"    -> [raised |-> TRUE,  value |-> 0]
      [] m.kind = "constant"  -> [raised |-> FALSE, value |-> m.value]
      [] m.kind = "averaging" -> [raised |-> FALSE,
                                  value |-> SumSeq(features) \div Len(features)]

\* A model artifact on disk: missing, unreadable (joblib.load raises) or a
\* pickled model.
ArtifactAbsent == [exists |-> FALSE]

ArtifactCorrupt == [exists |-> TRUE, loads |-> FALSE]

ArtifactOf(m) == [exists |-> TRUE, loads |-> TRUE, model |-> m]

Artifacts == {ArtifactAbsent, ArtifactCorrupt} \cup {ArtifactOf(m) : m \in Models}

\* The outcome of the try block of analyze_resume, assess_fluency and
\* assess_vocabulary for the artifact found on disk (for the video scorers the
\* model and its scaler, which must both exist): "model" with the predicted
\* value, "rule" when the artifact is missing, "fault" when loading it,
\* scaling or predict raised.
ScorerPath(art, features) ==
    IF art.exists
    THEN IF ~art.loads THEN [path |-> "fault", value |-> 0]
         ELSE LET p == ModelPredict(art.model, features)
              IN  IF p.raised THEN [path |-> "fault", value |-> 0]
                  ELSE [path |-> "model", value |-> p.value]
    ELSE [path |-> "rule", value |-> 0]

-----------------------------------------------------------------------------
(* ResumeAnalyzer *)

\* What the extraction steps (extract_skills, calculate_experience_years,
\* extract_education, extract_sections, text.split) find in a resume text:
\* the matched keywords per category in the order of technical_skills, the
\* experience in years, the degree level, the number of section headers
\* found and the number of words.
TextFacts(skills, years, degree, nsections, nwords) ==
    [empty |-> FALSE, skill_counts |-> skills, experience_years |-> years,
     degree_level |-> degree, sections |-> nsections, word_count |-> nwords]

EmptyText == [empty |-> TRUE]

SeniorText == TextFacts(<<6, 4, 3, 2, 5>>, 12, "masters", 6, 1400)

JuniorText == TextFacts(<<2, 0, 1, 0, 1>>, 1, "bachelors", 3, 300)

\* The files a resume path can name: their extension and what text
\* extraction returns for them.
ResumeFileSystem ==
    [senior_pdf  |-> [ext |-> "pdf",  text |-> SeniorText],
     junior_docx |-> [ext |-> "docx", text |-> JuniorText],
     scan_pdf    |-> [ext |-> "pdf",  text |-> EmptyText],
     notes_txt   |-> [ext |-> "txt",  text |-> JuniorText]]

ResumePaths == DOMAIN ResumeFileSystem

\* ResumeAnalyzer.read_resume: the text of a .pdf or .docx file, "" for any
\* other extension (and "" when extraction raises: the scan_pdf file).
read_resume(file_path) ==
    LET f == ResumeFileSystem[file_path]
    IN  IF f.ext \in {"pdf", "docx"} THEN f.text ELSE EmptyText

\* len(self.sections)
NumSections == 8

\* calculate_experience_years, line 176: the fixed current year
current_year == 2025

\* What the experience patterns match in a text, in text order: a mention of
\* "n years of experience" (the first pattern, group 1 = n), or a year range
\* "start - end" or "start to end" (the second and the third pattern), whose
\* end is a year or one of the words present, current, now.
YearsMention(n) == [kind |-> "years", n |-> n]

RangeMention(sep, start, end) ==
    [kind |-> "range", sep |-> sep, start |-> start, end |-> end]

Year(y) == [year |-> y]

Word(w) == [word |-> w]

\* calculate_experience_years, lines 189-205: what one range match appends
\* to years
RangeYears(m) ==
    LET start_year == m.start
        end_year == IF m.end \in {Word("present"), Word("current"), Word("now")}
                    THEN current_year
                    ELSE m.end.year
    IN  IF start_year <= end_year /\ start_year > 1950
        THEN <<end_year - start_year>>
        ELSE <<>>

\* calculate_experience_years, lines 180-205: what the matches of one pattern
\* append to years
RECURSIVE PatternYears(_, _)
PatternYears(mentions, pattern) ==
    IF mentions = <<>> THEN <<>>
    ELSE LET m == Head(mentions)
             rest == PatternYears(Tail(mentions), pattern)
         IN  IF m.kind = "years"
             THEN IF pattern = "years" THEN <<m.n>> \o rest ELSE rest
             ELSE IF m.sep = pattern THEN RangeYears(m) \o rest ELSE rest

\* max(years) for a non-empty list
RECURSIVE MaxSeq(_)
MaxSeq(s) == IF Len(s) = 1 THEN Head(s) ELSE Max(Head(s), MaxSeq(Tail(s)))

\* the list years after the loop over the three patterns
MatchedYears(mentions) ==
    PatternYears(mentions, "years") \o PatternYears(mentions, "-")
        \o PatternYears(mentions, "to")

\* calculate_experience_years adding the values up
calculate_experience_years_Sum(mentions) == SumSeq(MatchedYears(mentions))

\* ResumeAnalyzer.calculate_experience_years
calculate_experience_years(mentions) ==
    LET years == MatchedYears(mentions)
    IN  IF years # <<>> THEN MaxSeq(years) ELSE 0

\* the education level encoded for the feature vector
EducationLevel(degree) ==
    CASE degree = "phd"       -> One
      [] degree = "masters"   -> 8000
      [] degree = "bachelors" -> 6000
      [] degree = "associate" -> 4000
      [] OTHER                -> 0

\* ResumeAnalyzer.extract_ml_features
extract_ml_features(text) ==
    LET skill_count_total == SumSeq(text.skill_counts)
        norm_experience == Min(Ratio(text.experience_years, 10), One)
        sections_coverage == Ratio(text.sections, NumSections)
        norm_word_count == Min(Ratio(text.word_count, 1000), One)
    IN  [i \in 1..Len(text.skill_counts) |-> Ratio(text.skill_counts[i], 10)]
        \o <<Ratio(skill_count_total, 20), norm_experience,
             EducationLevel(text.degree_level), sections_coverage,
             norm_word_count>>

\* the points of the rule-based education score (out of 30)
EducationPoints(degree) ==
    CASE degree = "phd"       -> 30
      [] degree = "masters"   -> 25
      [] degree = "bachelors" -> 20
      [] degree = "associate" -> 15
      [] OTHER                -> 0

\* ResumeRuleScore without the cap on the skills sub-score
ResumeRuleScore_UncappedSkills(skill_count, experience_years, degree) ==
    LET skills_score == Ratio(skill_count, 20) * 40
        experience_score == Min(Ratio(experience_years, 10), One) * 30
        education_score == EducationPoints(degree) * One
    IN  (skills_score + experience_score + education_score) \div 100

\* analyze_resume, the else branch: rule-based scoring when no artifact exists
ResumeRuleScore(skill_count, experience_years, degree) ==
    LET skills_score == Min(Ratio(skill_count, 20), One) * 40
        experience_score == Min(Ratio(experience_years, 10), One) * 30
        education_score == EducationPoints(degree) * One
    IN  (skills_score + experience_score + education_score) \div 100

\* analyze_resume, the except branch: the score after load or predict raised
ResumeFaultScore(skill_count, experience_years, degree) ==
    Min(Ratio(skill_count, 20) + Ratio(experience_years, 10)
          + (IF degree # "none" THEN 6000 ELSE 0), One)

\* analyze_resume, lines 344-383: the score for the outcome r of the try block
ResumeScore(text, r) ==
    CASE r.path = "model" -> r.value
      [] r.path = "rule"  ->
            ResumeRuleScore(SumSeq(text.skill_counts), text.experience_years,
                            text.degree_level)
      [] r.path = "fault" ->
            ResumeFaultScore(SumSeq(text.skill_counts), text.experience_years,
                             text.degree_level)

\* AnalyzeText returning the bare score 0.0 for an empty text
AnalyzeText_NoMarker(text, art) ==
    IF text.empty
    THEN [score |-> 0]
    ELSE [score |-> ResumeScore(text, ScorerPath(art, extract_ml_features(text))),
          skill_count |-> SumSeq(text.skill_counts),
          experience_years |-> text.experience_years]

\* analyze_resume after read_resume: the result for an extracted text.  Of the
\* result's keys, those the evaluator reads (score, skill_count,
\* experience_years) and the error marker are kept.
AnalyzeText(text, art) ==
    IF text.empty
    THEN [score |-> 0, error |-> "Failed to extract text from resume"]
    ELSE [score |-> ResumeScore(text, ScorerPath(art, extract_ml_features(text))),
          skill_count |-> SumSeq(text.skill_counts),
          experience_years |-> text.experience_years]

\* ResumeAnalyzer.analyze_resume
analyze_resume(file_path, art) == AnalyzeText(read_resume(file_path), art)

-----------------------------------------------------------------------------
(* VideoAnalyzer *)

\* What tokenization finds in a transcript: sentences (sent_tokenize),
\* tokens (word_tokenize, punctuation included), the alphabetic words with
\* their distinct count and summed length, occurrences of the filler strings
\* and of the conjunctions, conjunction and preposition words, and the content
\* words (stop words and one-letter words removed) with their distinct count,
\* summed length and summed sophistication level (1..3 each).
Transcript(id, nsent, ntok, nalpha, ualpha, lalpha, nfill, nconj, ncplx, ncont, ucont, lcont, soph) ==
    [id |-> id, sentences |-> nsent, tokens |-> ntok, alpha_words |-> nalpha,
     alpha_unique |-> ualpha, alpha_length |-> lalpha, filler_count |-> nfill,
     conjunction_count |-> nconj, complexity_count |-> ncplx,
     content_words |-> ncont, content_unique |-> ucont,
     content_length |-> lcont, sophistication |-> soph]

MockTranscript == Transcript("mock", 8, 120, 110, 70, 550, 0, 4, 24, 55, 44, 385, 66)

EmptyTranscript == Transcript("", 0, 0, 0, 0, 0, 0, 0, 0, 0, 0, 0, 0)

FillerTranscript == Transcript("um like", 1, 4, 4, 3, 12, 6, 0, 0, 2, 2, 6, 2)

\* VideoAnalyzer.extract_speech_features
extract_speech_features(t) ==
    IF t.sentences = 0 \/ t.alpha_words = 0
    THEN <<0, 0, 0, 0, 0, 0, 0>>
    ELSE LET speech_rate == Ratio(t.alpha_words, t.sentences)
             pause_freq == Ratio(t.sentences * 10, t.alpha_words)
             filler_ratio == Ratio(t.filler_count, t.alpha_words)
             lexical_diversity == Ratio(t.alpha_unique, t.alpha_words)
             avg_word_length == Ratio(t.alpha_length, t.alpha_words)
             avg_sentence_length == Ratio(t.alpha_words, t.sentences)
             complexity_score == Ratio(t.complexity_count, t.sentences)
         IN  <<Min(speech_rate \div 25, One),
               Min(pause_freq \div 2, One),
               filler_ratio,
               lexical_diversity,
               Min(avg_word_length \div 8, One),
               Min(avg_sentence_length \div 25, One),
               Min(complexity_score \div 5, One)>>

\* assess_fluency, the else branch: the rule-based fluency score
FluencyRuleScore(avg_words_per_sentence, complexity_score, filler_ratio) ==
    LET sentence_length_score ==
            One - Min(Abs(avg_words_per_sentence - 15 * One) \div 10, One)
        normalized_complexity == Min(complexity_score \div 2, One)
        filler_penalty == One - Min(filler_ratio * 10, One)
        fluency_score == Mul(4000, sentence_length_score)
                           + Mul(4000, normalized_complexity)
                           + Mul(2000, filler_penalty)
    IN  Max(0, Min(fluency_score, One))

\* assess_fluency, lines 246-261 and 266-313: the metrics of a transcript
\* for the outcome r of the try block (the keys the evaluator reads are kept)
FluencyMetrics(t, r) ==
    LET avg_words_per_sentence ==
            IF t.sentences > 0 THEN Ratio(t.tokens, t.sentences) ELSE 0
        filler_ratio == IF t.tokens > 0 THEN Ratio(t.filler_count, t.tokens) ELSE 0
        complexity_score ==
            IF t.sentences > 0 THEN Ratio(t.conjunction_count, t.sentences) ELSE 0
        fluency_score ==
            CASE r.path = "model" -> r.value
              [] r.path = "rule"  ->
                    FluencyRuleScore(avg_words_per_sentence, complexity_score, filler_ratio)
              [] r.path = "fault" -> 5000
    IN  [score |-> fluency_score, filler_word_ratio |-> filler_ratio]

\* VideoAnalyzer.assess_fluency
assess_fluency(t, art) == FluencyMetrics(t, ScorerPath(art, extract_speech_features(t)))

\* assess_vocabulary, the weighted formula of the else and except branches
VocabularyRuleScore(lexical_diversity, avg_word_length, normalized_sophistication) ==
    Mul(4000, lexical_diversity)
      + Mul(3000, Min(avg_word_length \div 10, One))
      + Mul(3000, normalized_sophistication)

\* assess_vocabulary, lines 329-356 and 358-401: the metrics of a transcript
\* for the outcome r of the try block (the keys the evaluator reads are kept)
VocabularyMetrics(t, r) ==
    LET total_words == t.content_words
        lexical_diversity ==
            IF total_words > 0 THEN Ratio(t.content_unique, total_words) ELSE 0
        avg_word_length ==
            IF total_words > 0 THEN Ratio(t.content_length, total_words) ELSE 0
        avg_sophistication ==
            IF total_words > 0 THEN Ratio(t.sophistication, total_words) ELSE 0
        normalized_sophistication == (avg_sophistication - One) \div 2
        vocabulary_score ==
            IF r.path = "model" THEN r.value
            ELSE VocabularyRuleScore(lexical_diversity, avg_word_length,
                                     normalized_sophistication)
    IN  [score |-> Max(0, Min(vocabulary_score, One)),
         lexical_diversity |-> lexical_diversity]

\* VideoAnalyzer.assess_vocabulary
assess_vocabulary(t, art) ==
    VocabularyMetrics(t, ScorerPath(art, extract_speech_features(t)))

\* The files a video path can name: whether audio extraction works and the
\* transcript transcribe_audio returns (the mock text when recognition fails).
VideoFileSystem ==
    [interview_mp4 |-> [audio |-> TRUE,  transcript |-> MockTranscript],
     silent_mov    |-> [audio |-> TRUE,  transcript |-> EmptyTranscript],
     broken_avi    |-> [audio |-> FALSE, transcript |-> EmptyTranscript]]

VideoPaths == DOMAIN VideoFileSystem

\* analyze_video after the file is opened: f.audio is whether
\* extract_audio_from_video returned a path, f.transcript what
\* transcribe_audio returned
AnalyzeVideoFile(f, fluency_art, vocabulary_art) ==
    IF ~f.audio
    THEN [error |-> "Failed to extract audio from video"]
    ELSE [fluency |-> assess_fluency(f.transcript, fluency_art),
          vocabulary |-> assess_vocabulary(f.transcript, vocabulary_art),
          transcription |-> f.transcript.id]

\* VideoAnalyzer.analyze_video
analyze_video(video_path, fluency_art, vocabulary_art) ==
    AnalyzeVideoFile(VideoFileSystem[video_path], fluency_art, vocabulary_art)

-----------------------------------------------------------------------------
(* CandidateEvaluator *)

\* self.default_weights
default_weights ==
    [resume |-> 3000, academic |-> 2000, video_fluency |-> 2500,
     video_vocabulary |-> 2500]

\* the session dict assigned by __init__ and by reset_evaluation
EmptyEvaluation ==
    [resume_processed |-> FALSE, resume_data |-> PyNone,
     video_processed |-> FALSE, video_data |-> PyNone,
     cgpa |-> PyNone, overall_result |-> PyNone]

\* CandidateEvaluator.__init__, the model loading: the loaded model, or None
\* when the artifact is missing or joblib.load raises
LoadModel(art) == IF art.exists /\ art.loads THEN art.model ELSE PyNone

\* the default of normalize_cgpa's scale parameter
DefaultScale == 10 * One

\* normalize_cgpa capping the cgpa at the scale but not at zero
normalize_cgpa_NoLowerClamp(cgpa, scale) == Ratio(Min(cgpa, scale), scale)

\* CandidateEvaluator.normalize_cgpa
normalize_cgpa(cgpa, scale) == Ratio(Max(0, Min(cgpa, scale)), scale)

\* CandidateEvaluator._extract_features
_extract_features(resume_result, normalized_cgpa, video_result) ==
    <<Get(resume_result, "score", 0),
      normalized_cgpa,
      Ratio(Get(resume_result, "skill_count", 0), 20),
      Ratio(Get(resume_result, "experience_years", 0), 10),
      Get(Get(video_result, "fluency", EmptyDict), "score", 0),
      Get(Get(video_result, "vocabulary", EmptyDict), "score", 0),
      Get(Get(video_result, "fluency", EmptyDict), "filler_word_ratio", 0),
      Get(Get(video_result, "vocabulary", EmptyDict), "lexical_diversity", 0)>>

\* _calculate_weighted_score as the plain mean of the four scores
_calculate_weighted_score_PlainMean(resume_score, academic_score, fluency_score, vocabulary_score) ==
    (resume_score + academic_score + fluency_score + vocabulary_score) \div 4

\* CandidateEvaluator._calculate_weighted_score
_calculate_weighted_score(resume_score, academic_score, fluency_score, vocabulary_score) ==
    (default_weights.resume * resume_score
       + default_weights.academic * academic_score
       + default_weights.video_fluency * fluency_score
       + default_weights.video_vocabulary * vocabulary_score) \div One

\* _generate_recommendation with the thresholds exclusive
_generate_recommendation_StrictBounds(overall_score, resume_score, academic_score, fluency_score, vocabulary_score) ==
    IF overall_score > 8000 THEN "Strong Recommendation"
    ELSE IF overall_score > 7000 THEN "Positive Recommendation"
    ELSE IF overall_score > 6000 THEN "Moderate Recommendation"
    ELSE "Not Recommended"

\* CandidateEvaluator._generate_recommendation (the text up to the colon)
_generate_recommendation(overall_score, resume_score, academic_score, fluency_score, vocabulary_score) ==
    IF overall_score >= 8000 THEN "Strong Recommendation"
    ELSE IF overall_score >= 7000 THEN "Positive Recommendation"
    ELSE IF overall_score >= 6000 THEN "Moderate Recommendation"
    ELSE "Not Recommended"

\* the tier of one domain's feedback text
FeedbackTier(score) ==
    IF score >= 8000 THEN "high" ELSE IF score >= 6000 THEN "medium" ELSE "low"

\* _generate_detailed_feedback reading the fluency score for the vocabulary
\* feedback too
_generate_detailed_feedback_FluencyTwice(resume_result, normalized_cgpa, video_result) ==
    [resume     |-> FeedbackTier(Get(resume_result, "score", 0)),
     academic   |-> FeedbackTier(normalized_cgpa),
     fluency    |-> FeedbackTier(Get(Get(video_result, "fluency", EmptyDict), "score", 0)),
     vocabulary |-> FeedbackTier(Get(Get(video_result, "fluency", EmptyDict), "score", 0))]

\* CandidateEvaluator._generate_detailed_feedback (each text named by its tier)
_generate_detailed_feedback(resume_result, normalized_cgpa, video_result) ==
    [resume     |-> FeedbackTier(Get(resume_result, "score", 0)),
     academic   |-> FeedbackTier(normalized_cgpa),
     fluency    |-> FeedbackTier(Get(Get(video_result, "fluency", EmptyDict), "score", 0)),
     vocabulary |-> FeedbackTier(Get(Get(video_result, "vocabulary", EmptyDict), "score", 0))]

\* evaluate_candidate, lines 151-160: the overall score, or the fault of predict
OverallScore(m, features, resume_score, normalized_cgpa, fluency_score, vocabulary_score) ==
    IF m # PyNone
    THEN ModelPredict(m, features)
    ELSE [raised |-> FALSE,
          value |-> _calculate_weighted_score(resume_score, normalized_cgpa,
                                              fluency_score, vocabulary_score)]

\* evaluate_candidate, lines 130-138: the incomplete marker
IncompleteMarker(ce, cgpa) ==
    [error |-> "Incomplete evaluation data",
     resume_processed |-> ce.resume_processed,
     video_processed |-> ce.video_processed,
     cgpa_provided |-> (cgpa # PyNone)]

\* evaluate_candidate, lines 111-112 and 115: the resume result the call goes
\* on with, analysed from the path when no result is passed
ResumeResultOf(a, dsk) ==
    IF Truthy(a.resume_path) /\ ~Truthy(a.resume_result)
    THEN analyze_resume(a.resume_path.path, dsk.resume)
    ELSE a.resume_result

\* evaluate_candidate, lines 122-123 and 126: the video result the call goes
\* on with
VideoResultOf(a, dsk) ==
    IF Truthy(a.video_path) /\ ~Truthy(a.video_result)
    THEN analyze_video(a.video_path.path, dsk.fluency, dsk.vocabulary)
    ELSE a.video_result

\* StoreInputs marking the resume processed on every call
StoreInputs_AlwaysFlagsResume(ce, a, resume_result, video_result) ==
    LET store_r == (Truthy(a.resume_path) /\ ~Truthy(a.resume_result))
                     \/ Truthy(resume_result)
        store_v == (Truthy(a.video_path) /\ ~Truthy(a.video_result))
                     \/ Truthy(video_result)
    IN  [resume_processed |-> TRUE,
         resume_data      |-> IF store_r THEN resume_result ELSE ce.resume_data,
         video_processed  |-> IF store_v THEN TRUE ELSE ce.video_processed,
         video_data       |-> IF store_v THEN video_result ELSE ce.video_data,
         cgpa             |-> IF a.cgpa # PyNone THEN a.cgpa ELSE ce.cgpa,
         overall_result   |-> ce.overall_result]

\* StoreInputs with the cgpa assigned unconditionally, without line 119
StoreInputs_AssignsCgpa(ce, a, resume_result, video_result) ==
    LET store_r == (Truthy(a.resume_path) /\ ~Truthy(a.resume_result))
                     \/ Truthy(resume_result)
        store_v == (Truthy(a.video_path) /\ ~Truthy(a.video_result))
                     \/ Truthy(video_result)
    IN  [resume_processed |-> IF store_r THEN TRUE ELSE ce.resume_processed,
         resume_data      |-> IF store_r THEN resume_result ELSE ce.resume_data,
         video_processed  |-> IF store_v THEN TRUE ELSE ce.video_processed,
         video_data       |-> IF store_v THEN video_result ELSE ce.video_data,
         cgpa             |-> a.cgpa,
         overall_result   |-> ce.overall_result]

\* evaluate_candidate, lines 110-128: the session after the inputs of the
\* call are recorded
StoreInputs(ce, a, resume_result, video_result) ==
    LET store_r == (Truthy(a.resume_path) /\ ~Truthy(a.resume_result))
                     \/ Truthy(resume_result)
        store_v == (Truthy(a.video_path) /\ ~Truthy(a.video_result))
                     \/ Truthy(video_result)
    IN  [resume_processed |-> IF store_r THEN TRUE ELSE ce.resume_processed,
         resume_data      |-> IF store_r THEN resume_result ELSE ce.resume_data,
         video_processed  |-> IF store_v THEN TRUE ELSE ce.video_processed,
         video_data       |-> IF store_v THEN video_result ELSE ce.video_data,
         cgpa             |-> IF a.cgpa # PyNone THEN a.cgpa ELSE ce.cgpa,
         overall_result   |-> ce.overall_result]

\* the session and the analysis results after lines 110-128
Recorded(ce, a, resume_result, video_result) ==
    [ce |-> StoreInputs(ce, a, resume_result, video_result),
     resume_result |-> resume_result, video_result |-> video_result]

RecordInputs(ce, dsk, a) ==
    Recorded(ce, a, ResumeResultOf(a, dsk), VideoResultOf(a, dsk))

\* evaluate_candidate, lines 140-146: the four component scores
ComponentScores(resume_result, cgpa, video_result) ==
    [resume_score |-> Get(resume_result, "score", 0),
     academic_score |-> normalize_cgpa(cgpa.float, DefaultScale),
     fluency_score |-> Get(Get(video_result, "fluency", EmptyDict), "score", 0),
     vocabulary_score |-> Get(Get(video_result, "vocabulary", EmptyDict), "score", 0)]

\* evaluate_candidate, lines 162-186: the result built around an overall
\* score, or the fault of predict passed on
EvaluationResult(overall, cs, resume_result, video_result) ==
    IF overall.raised
    THEN [raised |-> TRUE, value |-> PyNone]
    ELSE [raised |-> FALSE,
          value |->
            [overall_score |-> overall.value,
             component_scores |-> cs,
             recommendation |->
                _generate_recommendation(overall.value, cs.resume_score,
                                         cs.academic_score, cs.fluency_score,
                                         cs.vocabulary_score),
             detailed_feedback |->
                _generate_detailed_feedback(resume_result, cs.academic_score, video_result),
             transcription |-> Get(video_result, "transcription", "")]]

\* evaluate_candidate, lines 149 and 154: the feature vector handed to
\* self.model.predict
PredictArgument(cs, resume_result, video_result) ==
    _extract_features(resume_result, cs.academic_score, video_result)

\* evaluate_candidate, lines 148-186, for the component scores cs
ScoreAndReport(m, cs, resume_result, video_result) ==
    EvaluationResult(
        OverallScore(m, PredictArgument(cs, resume_result, video_result),
                     cs.resume_score, cs.academic_score, cs.fluency_score,
                     cs.vocabulary_score),
        cs, resume_result, video_result)

\* evaluate_candidate, lines 140-186: the complete evaluation
CompleteEvaluation(m, resume_result, cgpa, video_result) ==
    ScoreAndReport(m, ComponentScores(resume_result, cgpa, video_result),
                   resume_result, video_result)

\* HasAllData testing the cgpa for truth, so that 0.0 counts as missing
HasAllData_CgpaTruthy(resume_result, cgpa, video_result) ==
    Truthy(resume_result) /\ cgpa # PyNone /\ cgpa # Float(0) /\ Truthy(video_result)

\* HasAllData checking the resume and the cgpa but not the video
HasAllData_IgnoresVideo(resume_result, cgpa, video_result) ==
    Truthy(resume_result) /\ cgpa # PyNone

\* evaluate_candidate, line 131: the call has all the data it needs
HasAllData(resume_result, cgpa, video_result) ==
    Truthy(resume_result) /\ cgpa # PyNone /\ Truthy(video_result)

\* what evaluate_candidate returns with the session ce left behind
Returned(ce, r) == [ce |-> ce, raised |-> r.raised, value |-> r.value]

\* evaluate_candidate, lines 130-186, after the inputs are recorded
Conclude(rec, m, a) ==
    IF ~HasAllData(rec.resume_result, a.cgpa, rec.video_result)
    THEN [ce |-> rec.ce, raised |-> FALSE, value |-> IncompleteMarker(rec.ce, a.cgpa)]
    ELSE Returned(rec.ce,
                  CompleteEvaluation(m, rec.resume_result, a.cgpa, rec.video_result))

\* evaluate_candidate going on with the cgpa of the session when it holds one
evaluate_candidate_PrefersSessionCgpa(ce, m, dsk, a) ==
    Conclude(RecordInputs(ce, dsk, a), m,
             IF ce.cgpa # PyNone THEN [a EXCEPT !.cgpa = ce.cgpa] ELSE a)

\* CandidateEvaluator.evaluate_candidate: the session it leaves and what it
\* returns or raises
evaluate_candidate(ce, m, dsk, a) == Conclude(RecordInputs(ce, dsk, a), m, a)

\* get_evaluation_state, lines 357-360: all inputs present, no result cached
NeedsEvaluation(ce) ==
    /\ ce.resume_processed
    /\ ce.video_processed
    /\ ce.cgpa # PyNone
    /\ ce.overall_result = PyNone

\* SessionArgs handing over the cgpa already normalised
SessionArgs_NormalizesCgpa(ce) ==
    [resume_path |-> PyNone,
     cgpa |-> Float(normalize_cgpa(ce.cgpa.float, DefaultScale)),
     video_path |-> PyNone,
     resume_result |-> ce.resume_data, video_result |-> ce.video_data]

\* the arguments _perform_overall_evaluation passes to evaluate_candidate
SessionArgs(ce) ==
    [resume_path |-> PyNone, cgpa |-> ce.cgpa, video_path |-> PyNone,
     resume_result |-> ce.resume_data, video_result |-> ce.video_data]

\* _perform_overall_evaluation, line 389: the result r of the evaluation is
\* cached, unless the evaluation raised
CacheResult(r) ==
    IF r.raised
    THEN [ce |-> r.ce, raised |-> TRUE, ran |-> TRUE]
    ELSE [ce |-> [r.ce EXCEPT !.overall_result = r.value], raised |-> FALSE, ran |-> TRUE]

\* CandidateEvaluator._perform_overall_evaluation: the session it leaves,
\* whether it raised, and whether it ran the evaluation
_perform_overall_evaluation(ce, m, dsk) ==
    IF ~(ce.resume_processed /\ ce.video_processed /\ ce.cgpa # PyNone)
    THEN [ce |-> ce, raised |-> FALSE, ran |-> FALSE]
    ELSE CacheResult(evaluate_candidate(ce, m, dsk, SessionArgs(ce)))

\* CandidateEvaluator.get_evaluation_state
get_evaluation_state(ce, m, dsk) ==
    IF NeedsEvaluation(ce)
    THEN _perform_overall_evaluation(ce, m, dsk)
    ELSE [ce |-> ce, raised |-> FALSE, ran |-> FALSE]

\* _perform_overall_evaluation, lines 368-372: all three inputs are present
HasAllInputs(ce) == ce.resume_processed /\ ce.video_processed /\ ce.cgpa # PyNone

\* reset_evaluation with the cgpa left in place
reset_evaluation_KeepsCgpa(ce) == [EmptyEvaluation EXCEPT !.cgpa = ce.cgpa]

\* reset_evaluation with the cached result left in place
reset_evaluation_KeepsResult(ce) ==
    [EmptyEvaluation EXCEPT !.overall_result = ce.overall_result]

\* CandidateEvaluator.reset_evaluation: the new session dict
reset_evaluation(ce) == EmptyEvaluation

-----------------------------------------------------------------------------
(* The inputs of the calls *)

\* the most lazy evaluations counted between two resets
MaxLazyEvals == 3

\* pre-analysed results a caller passes as resume_result / video_result
PreResume == [score |-> 8000, skill_count |-> 16, experience_years |-> 5]

PreVideo ==
    [fluency |-> [score |-> 6000, filler_word_ratio |-> 100],
     vocabulary |-> [score |-> 7000, lexical_diversity |-> 6500],
     transcription |-> "pre"]

\* the (resume_path, resume_result) pairs of a call
ResumeArgs ==
    {[path |-> PyNone, result |-> PyNone],
     [path |-> Path(""), result |-> EmptyDict],
     [path |-> Path("junior_docx"), result |-> PyNone],
     [path |-> Path("scan_pdf"), result |-> EmptyDict],
     [path |-> Path("senior_pdf"), result |-> PreResume]}

\* the (video_path, video_result) pairs of a call
VideoArgs ==
    {[path |-> PyNone, result |-> PyNone],
     [path |-> Path("interview_mp4"), result |-> PyNone],
     [path |-> Path("broken_avi"), result |-> EmptyDict],
     [path |-> PyNone, result |-> PreVideo]}

\* the cgpa of a call: absent, 0.0, 8.5 and the out-of-range 12.0
CgpaArgs == {PyNone, Float(0), Float(85000), Float(120000)}

EvaluateArgs ==
    {[resume_path |-> r.path, cgpa |-> c, video_path |-> v.path,
      resume_result |-> r.result, video_result |-> v.result] :
        r \in ResumeArgs, c \in CgpaArgs, v \in VideoArgs}

\* the states of evaluation_model.joblib the evaluator is constructed with
AggregatorArtifacts ==
    {ArtifactAbsent, ArtifactCorrupt, ArtifactOf(AveragingModel),
     ArtifactOf(HighModel), ArtifactOf(FaultyModel)}

\* the scorers' artifacts of a deployment without trained scorer models
NoScorerModels ==
    [resume |-> ArtifactAbsent, fluency |-> ArtifactAbsent, vocabulary |-> ArtifactAbsent]

-----------------------------------------------------------------------------
(* The evaluator as a state machine *)

\* the value returned by get_evaluation_state and reset_evaluation: the
\* session dict itself, not a copy
SessionRef == [ref |-> "current_evaluation"]

\* the call a supplies the resume, the cgpa and the video, by path or by result
SuppliesAll(a) ==
    /\ Truthy(a.resume_path) \/ Truthy(a.resume_result)
    /\ a.cgpa # PyNone
    /\ Truthy(a.video_path) \/ Truthy(a.video_result)

\* no get_evaluation_state call under way
IdleReader == [pc |-> "idle", args |-> PyNone, result |-> PyNone, interleaved |-> FALSE]

\* no input handed over yet
NothingSupplied == [resume |-> PyNone, cgpa |-> PyNone, video |-> PyNone]

\* CandidateEvaluator.__init__
Init ==
    \E art \in AggregatorArtifacts :
        /\ disk = [evaluation |-> art, resume |-> NoScorerModels.resume,
                   fluency |-> NoScorerModels.fluency,
                   vocabulary |-> NoScorerModels.vocabulary]
        /\ model = LoadModel(art)
        /\ current_evaluation = EmptyEvaluation
        /\ op = "__init__"
        /\ ret = PyNone
        /\ raised = FALSE
        /\ lazy_evals = 0
        /\ call_complete = FALSE
        /\ supplied = NothingSupplied
        /\ input = PyNone
        /\ reader = IdleReader

\* the effect of a call of evaluate_candidate with the arguments a
CallEvaluate(a) ==
    \E r \in {evaluate_candidate(current_evaluation, model, disk, a)} :
        /\ current_evaluation' = r.ce
        /\ op' = "evaluate_candidate"
        /\ ret' = r.value
        /\ raised' = r.raised
        /\ call_complete' = SuppliesAll(a)
        /\ UNCHANGED <<model, disk, lazy_evals, input>>

\* a call of evaluate_candidate with the arguments a
EvaluateCandidate(a) == CallEvaluate(a) /\ UNCHANGED <<supplied, reader>>

\* a call of get_evaluation_state
GetEvaluationState ==
    \E r \in {get_evaluation_state(current_evaluation, model, disk)} :
        /\ r.ran => lazy_evals < MaxLazyEvals
        /\ current_evaluation' = r.ce
        /\ op' = "get_evaluation_state"
        /\ ret' = IF r.raised THEN PyNone ELSE SessionRef
        /\ raised' = r.raised
        /\ lazy_evals' = IF r.ran THEN lazy_evals + 1 ELSE lazy_evals
        /\ call_complete' = FALSE
        /\ UNCHANGED <<model, disk, supplied, input, reader>>

\* the effect of a call of reset_evaluation
CallReset ==
    /\ current_evaluation' = reset_evaluation(current_evaluation)
    /\ op' = "reset_evaluation"
    /\ ret' = SessionRef
    /\ raised' = FALSE
    /\ lazy_evals' = 0
    /\ call_complete' = FALSE
    /\ UNCHANGED <<model, disk, supplied, input>>

\* a call of reset_evaluation
ResetEvaluation == CallReset /\ UNCHANGED reader

Next ==
    \/ \E a \in EvaluateArgs : EvaluateCandidate(a)
    \/ GetEvaluationState
    \/ ResetEvaluation

Spec == Init /\ [][Next]_vars

-----------------------------------------------------------------------------
(* The inputs arriving one at a time: from the empty session the resume      *)
(* result, the video result and the CGPA are handed over by three calls of   *)
(* evaluate_candidate, each once and in any order, and the state is read.    *)

\* the arguments of a call that hands over nothing
NoArgs ==
    [resume_path |-> PyNone, cgpa |-> PyNone, video_path |-> PyNone,
     resume_result |-> PyNone, video_result |-> PyNone]

\* the pre-analysed results and CGPAs handed over
OrderResumes == {PreResume, analyze_resume("junior_docx", ArtifactAbsent),
                 analyze_resume("scan_pdf", ArtifactAbsent)}

OrderVideos == {PreVideo,
                analyze_video("interview_mp4", ArtifactAbsent, ArtifactAbsent),
                analyze_video("broken_avi", ArtifactAbsent, ArtifactAbsent)}

OrderCgpas == {Float(0), Float(85000), Float(120000)}

SupplyResume(r) ==
    /\ supplied.resume = PyNone
    /\ CallEvaluate([NoArgs EXCEPT !.resume_result = r])
    /\ supplied' = [supplied EXCEPT !.resume = r]
    /\ UNCHANGED reader

SupplyCgpa(c) ==
    /\ supplied.cgpa = PyNone
    /\ CallEvaluate([NoArgs EXCEPT !.cgpa = c])
    /\ supplied' = [supplied EXCEPT !.cgpa = c]
    /\ UNCHANGED reader

SupplyVideo(v) ==
    /\ supplied.video = PyNone
    /\ CallEvaluate([NoArgs EXCEPT !.video_result = v])
    /\ supplied' = [supplied EXCEPT !.video = v]
    /\ UNCHANGED reader

NextOrder ==
    \/ \E r \in OrderResumes : SupplyResume(r)
    \/ \E c \in OrderCgpas : SupplyCgpa(c)
    \/ \E v \in OrderVideos : SupplyVideo(v)
    \/ GetEvaluationState

SpecOrder == Init /\ [][NextOrder]_vars

-----------------------------------------------------------------------------
(* The scorers on their own: model artifacts are written to and removed from *)
(* the three scorers' locations, and resumes and transcripts are scored with *)
(* whatever is there at the time of the call.                                *)

\* the skill counts by category of the texts scored
ScorerSkills == {<<0, 0, 0, 0, 0>>, <<2, 0, 1, 0, 1>>, <<15, 13, 12, 8, 12>>}

\* the years of experience and the degrees of the texts scored
ScorerYears == {0, 4, 12}

ScorerDegrees == {"none", "bachelors", "phd"}

\* the resume texts scored: the empty text and one text for every mix of
\* skills, years and degree
ScorerTexts ==
    {EmptyText} \cup
    {TextFacts(sk, y, d, 4, 500) : sk \in ScorerSkills, y \in ScorerYears,
                                   d \in ScorerDegrees}

\* the transcripts scored
ScorerTranscripts == {MockTranscript, EmptyTranscript, FillerTranscript}

\* the scorers' artifact locations
ScorerSlots == {"resume", "fluency", "vocabulary"}

InitScorers ==
    /\ disk = [evaluation |-> ArtifactAbsent, resume |-> ArtifactAbsent,
               fluency |-> ArtifactAbsent, vocabulary |-> ArtifactAbsent]
    /\ model = LoadModel(ArtifactAbsent)
    /\ current_evaluation = EmptyEvaluation
    /\ op = "__init__"
    /\ ret = PyNone
    /\ raised = FALSE
    /\ lazy_evals = 0
    /\ call_complete = FALSE
    /\ supplied = NothingSupplied
    /\ input = PyNone
    /\ reader = IdleReader

\* a model artifact is written to, or removed from, the location slot
DeployArtifact(slot, art) ==
    /\ disk[slot] # art
    /\ disk' = [disk EXCEPT ![slot] = art]
    /\ op' = "deploy"
    /\ ret' = PyNone
    /\ raised' = FALSE
    /\ UNCHANGED <<current_evaluation, model, lazy_evals, call_complete, supplied,
                   input, reader>>

\* the scorer name, given x, returned the metrics r
ScorerReturns(name, x, r) ==
    /\ op' = name
    /\ input' = x
    /\ ret' = r
    /\ raised' = FALSE
    /\ UNCHANGED <<current_evaluation, model, disk, lazy_evals, call_complete,
                   supplied, reader>>

\* a call of analyze_resume on a file with the text text
AnalyzeResume(text) ==
    ScorerReturns("analyze_resume", text, AnalyzeText(text, disk.resume))

\* a call of assess_fluency on the transcript t
AssessFluency(t) == ScorerReturns("assess_fluency", t, assess_fluency(t, disk.fluency))

\* a call of assess_vocabulary on the transcript t
AssessVocabulary(t) ==
    ScorerReturns("assess_vocabulary", t, assess_vocabulary(t, disk.vocabulary))

NextScorers ==
    \/ \E slot \in ScorerSlots, art \in Artifacts : DeployArtifact(slot, art)
    \/ \E text \in ScorerTexts : AnalyzeResume(text)
    \/ \E t \in ScorerTranscripts : AssessFluency(t)
    \/ \E t \in ScorerTranscripts : AssessVocabulary(t)

SpecScorers == InitScorers /\ [][NextScorers]_vars

-----------------------------------------------------------------------------
(* The functions on their own: an input is drawn, and the function it is an *)
(* input of is applied to it once.                                           *)

\* scores around the thresholds 0.6, 0.7 and 0.8
ScoreGrid == {0, 1000, 5999, 6000, 6999, 7000, 7999, 8000, One}

\* CGPAs: -3.0, 0.0, 5.0, 8.5, 10.0 and 12.0
CgpaGrid == {0 - 30000, 0, 50000, 85000, 100000, 120000}

\* pre-analysed component scores and a cgpa, for evaluate_candidate
ScoreInputs ==
    [resume_score : ScoreGrid, cgpa : CgpaGrid, fluency_score : ScoreGrid,
     vocabulary_score : ScoreGrid]

\* a cgpa and a scale (4.0 or 10.0), for normalize_cgpa
CgpaInputs == [cgpa : CgpaGrid \cup {40000}, scale : {40000, DefaultScale}]

\* an overall score, also outside [0, 1], and component scores, for
\* _generate_recommendation
RecommendationInputs ==
    [overall_score : ScoreGrid \cup {0 - 2500, One + 2500},
     resume_score : {0, One}, academic_score : {0, One},
     fluency_score : {0, One}, vocabulary_score : {0, One}]

\* resume texts, for extract_ml_features: from no keyword matched to every
\* keyword of every category matched
FeatureTexts ==
    {TextFacts(sk, y, d, n, w) :
        sk \in {<<0, 0, 0, 0, 0>>, <<2, 0, 1, 0, 1>>, <<10, 2, 3, 1, 4>>,
                <<11, 0, 0, 0, 0>>, <<15, 13, 12, 8, 12>>},
        y \in {0, 4, 10, 40},
        d \in {"none", "associate", "bachelors", "masters", "phd"},
        n \in {0, 4, NumSections},
        w \in {1, 300, 5000}}

\* a transcript of digits: one sentence and no alphabetic word
DigitsTranscript == Transcript("2024 .", 1, 2, 0, 0, 0, 0, 0, 0, 1, 1, 4, 1)

\* transcripts, for extract_speech_features
FeatureTranscripts ==
    {MockTranscript, EmptyTranscript, FillerTranscript, DigitsTranscript}

\* resume texts, for analyze_resume without a model artifact: the skills
\* matched in all (0, 4, 20, 21 and 60), the experience and the degree vary
RuleTexts ==
    {TextFacts(sk, y, d, 4, 500) :
        sk \in {<<0, 0, 0, 0, 0>>, <<2, 0, 1, 0, 1>>, <<10, 2, 3, 1, 4>>,
                <<11, 2, 3, 1, 4>>, <<15, 13, 12, 8, 12>>},
        y \in {0, 4, 10, 40},
        d \in {"none", "associate", "bachelors", "masters", "phd"}}

\* the most matches of the experience patterns in one text
MaxMentions == 3

\* the matches a text can hold: explicit mentions of 0, 3 and 7 years, the
\* ranges 2018-2020, 2020-2018, 1950 to 2000, 1951-1960, 2015 to present,
\* 2030-now and 2021-current
Mentions ==
    {YearsMention(0), YearsMention(3), YearsMention(7),
     RangeMention("-", 2018, Year(2020)), RangeMention("-", 2020, Year(2018)),
     RangeMention("to", 1950, Year(2000)), RangeMention("-", 1951, Year(1960)),
     RangeMention("to", 2015, Word("present")),
     RangeMention("-", 2030, Word("now")),
     RangeMention("-", 2021, Word("current"))}

\* texts, for calculate_experience_years: up to MaxMentions matches each
MentionTexts == UNION {[1..n -> Mentions] : n \in 0..MaxMentions}

FunctionInputs ==
    ScoreInputs \cup CgpaInputs \cup RecommendationInputs
        \cup [text : FeatureTexts] \cup [transcription : FeatureTranscripts]
        \cup [resume_text : RuleTexts] \cup [mentions : MentionTexts]

InitFunctions ==
    \E art \in AggregatorArtifacts :
        /\ disk = [evaluation |-> art, resume |-> NoScorerModels.resume,
                   fluency |-> NoScorerModels.fluency,
                   vocabulary |-> NoScorerModels.vocabulary]
        /\ model = LoadModel(art)
        /\ current_evaluation = EmptyEvaluation
        /\ op = "__init__"
        /\ ret = PyNone
        /\ raised = FALSE
        /\ lazy_evals = 0
        /\ call_complete = FALSE
        /\ supplied = NothingSupplied
        /\ input \in FunctionInputs
        /\ reader = IdleReader

\* the arguments of an evaluate_candidate call that passes the scores x as
\* pre-analysed results
ScoresArgs(x) ==
    [NoArgs EXCEPT !.resume_result = [score |-> x.resume_score],
                   !.cgpa = Float(x.cgpa),
                   !.video_result = [fluency |-> [score |-> x.fluency_score],
                                     vocabulary |-> [score |-> x.vocabulary_score]]]

\* a function returned the value r
FunctionReturns(name, r) ==
    /\ op = "__init__"
    /\ op' = name
    /\ ret' = r
    /\ raised' = FALSE
    /\ UNCHANGED <<current_evaluation, model, disk, lazy_evals, call_complete,
                   supplied, input, reader>>

\* evaluate_candidate on pre-analysed scores
EvaluateScores ==
    /\ op = "__init__"
    /\ input \in ScoreInputs
    /\ CallEvaluate(ScoresArgs(input))
    /\ UNCHANGED <<supplied, reader>>

NormalizeCgpa ==
    /\ input \in CgpaInputs
    /\ FunctionReturns("normalize_cgpa", Float(normalize_cgpa(input.cgpa, input.scale)))

GenerateRecommendation ==
    /\ input \in RecommendationInputs
    /\ FunctionReturns("_generate_recommendation",
            [recommendation |->
                _generate_recommendation(input.overall_score, input.resume_score,
                                         input.academic_score, input.fluency_score,
                                         input.vocabulary_score)])

ExtractMlFeatures ==
    /\ input \in [text : FeatureTexts]
    /\ FunctionReturns("extract_ml_features",
                       [features |-> extract_ml_features(input.text)])

ExtractSpeechFeatures ==
    /\ input \in [transcription : FeatureTranscripts]
    /\ FunctionReturns("extract_speech_features",
                       [features |-> extract_speech_features(input.transcription)])

\* analyze_resume on an extracted text, with the artifact the deployment has
AnalyzeResumeText ==
    /\ input \in [resume_text : RuleTexts]
    /\ FunctionReturns("analyze_resume", AnalyzeText(input.resume_text, disk.resume))

CalculateExperienceYears ==
    /\ input \in [mentions : MentionTexts]
    /\ FunctionReturns("calculate_experience_years",
                       Float(calculate_experience_years(input.mentions)))

NextFunctions ==
    \/ EvaluateScores
    \/ CalculateExperienceYears
    \/ AnalyzeResumeText
    \/ NormalizeCgpa
    \/ GenerateRecommendation
    \/ ExtractMlFeatures
    \/ ExtractSpeechFeatures

SpecFunctions == InitFunctions /\ [][NextFunctions]_vars

-----------------------------------------------------------------------------
(* The shared evaluator of the API server under concurrent requests: one     *)
(* get_evaluation_state call runs step by step (its check, the reads of      *)
(* _perform_overall_evaluation, the evaluation, the cache write) while       *)
(* evaluate_candidate and reset_evaluation calls of other requests run       *)
(* between its steps.  interleaved records that another call ran while the   *)
(* read was under way; a reset that runs while no read is under way leaves   *)
(* the evaluator as constructed, and clears it.                              *)

\* the calls of the other requests
ThreadArgs ==
    {[NoArgs EXCEPT !.resume_result = PreResume, !.cgpa = Float(85000),
                    !.video_result = PreVideo],
     [NoArgs EXCEPT !.resume_path = Path("junior_docx")],
     [NoArgs EXCEPT !.cgpa = Float(0)],
     [NoArgs EXCEPT !.video_path = Path("interview_mp4")]}

\* get_evaluation_state returns (line 364), or raises
ReaderReturns(r) ==
    /\ op' = "get_evaluation_state"
    /\ ret' = IF r THEN PyNone ELSE SessionRef
    /\ raised' = r
    /\ call_complete' = FALSE
    /\ reader' = [IdleReader EXCEPT !.interleaved = reader.interleaved]

\* the call goes on to its next step
ReaderMoves(pc, args, result) ==
    /\ reader' = [reader EXCEPT !.pc = pc, !.args = args, !.result = result]
    /\ UNCHANGED <<op, ret, raised, call_complete>>

\* get_evaluation_state, lines 357-362: the check of the session
ReadCheck ==
    /\ reader.pc = "idle"
    /\ IF NeedsEvaluation(current_evaluation)
       THEN ReaderMoves("perform", PyNone, PyNone)
       ELSE ReaderReturns(FALSE)
    /\ UNCHANGED <<current_evaluation, model, disk, lazy_evals, supplied, input>>

\* _perform_overall_evaluation, lines 368-378: the second check and the reads
\* of resume_data, video_data and cgpa
ReadInputs ==
    /\ reader.pc = "perform"
    /\ IF HasAllInputs(current_evaluation)
       THEN ReaderMoves("evaluate", SessionArgs(current_evaluation), PyNone)
       ELSE ReaderReturns(FALSE)
    /\ UNCHANGED <<current_evaluation, model, disk, lazy_evals, supplied, input>>

\* _perform_overall_evaluation, lines 381-387: the call of evaluate_candidate
\* with the values read
ReadEvaluate ==
    /\ reader.pc = "evaluate"
    /\ lazy_evals < MaxLazyEvals
    /\ \E r \in {evaluate_candidate(current_evaluation, model, disk, reader.args)} :
            /\ current_evaluation' = r.ce
            /\ IF r.raised
               THEN ReaderReturns(TRUE)
               ELSE ReaderMoves("cache", PyNone, r.value)
    /\ lazy_evals' = lazy_evals + 1
    /\ UNCHANGED <<model, disk, supplied, input>>

\* _perform_overall_evaluation, line 389: the result is written to the
\* session dict the evaluator holds now
ReadCache ==
    /\ reader.pc = "cache"
    /\ current_evaluation' = [current_evaluation EXCEPT !.overall_result = reader.result]
    /\ ReaderReturns(FALSE)
    /\ UNCHANGED <<model, disk, lazy_evals, supplied, input>>

\* a reset_evaluation call of another request
ThreadReset ==
    /\ CallReset
    /\ reader' = [reader EXCEPT !.interleaved = reader.pc # "idle"]

\* an evaluate_candidate call of another request
ThreadEvaluate(a) ==
    /\ CallEvaluate(a)
    /\ reader' = [reader EXCEPT !.interleaved = @ \/ reader.pc # "idle"]
    /\ UNCHANGED supplied

NextThreads ==
    \/ ReadCheck
    \/ ReadInputs
    \/ ReadEvaluate
    \/ ReadCache
    \/ ThreadReset
    \/ \E a \in ThreadArgs : ThreadEvaluate(a)

SpecThreads == Init /\ [][NextThreads]_vars

-----------------------------------------------------------------------------
(* The HTTP API (api.py): the routes of the server around one shared        *)
(* evaluator and two analyzers of their own.  A request is its files and    *)
(* its form, both dicts by field name; an uploaded file is its filename, a  *)
(* sequence of name parts and dots, and the file it is saved as.            *)

Upload(filename, file) == [filename |-> filename, file |-> file]

\* ALLOWED_EXTENSIONS
ALLOWED_EXTENSIONS == {"pdf", "docx", "mp4", "mov", "avi"}

\* str.lower on a name part
Lower(part) ==
    CASE part = "PDF" -> "pdf"
      [] part = "MP4" -> "mp4"
      [] OTHER        -> part

\* filename.rsplit('.', 1)[1]: the parts after the last dot
RECURSIVE AfterLastDot(_)
AfterLastDot(filename) ==
    IF filename[Len(filename)] = "." THEN <<>>
    ELSE AfterLastDot(SubSeq(filename, 1, Len(filename) - 1))
            \o <<filename[Len(filename)]>>

\* allowed_file accepting every filename with a dot in it
allowed_file_AnyExtension(filename) == \E i \in DOMAIN filename : filename[i] = "."

\* allowed_file (a name of several parts after the last dot is none of the
\* allowed extensions)
allowed_file(filename) ==
    /\ \E i \in DOMAIN filename : filename[i] = "."
    /\ \E ext \in {AfterLastDot(filename)} :
            Len(ext) = 1 /\ Lower(ext[1]) \in ALLOWED_EXTENSIONS

\* float(s) for the strings a cgpa field holds: the number, or ValueError
ParseFloat(str) ==
    CASE str = "8.5"  -> [ok |-> TRUE, value |-> 85000]
      [] str = "0"    -> [ok |-> TRUE, value |-> 0]
      [] str = " 12 " -> [ok |-> TRUE, value |-> 120000]
      [] OTHER        -> [ok |-> FALSE]

\* jsonify({'error': message}), status
ErrorResponse(status, message) == [status |-> status, error |-> message]

\* jsonify(result)
JsonResponse(body) == [status |-> 200, body |-> body]

\* what a route leaves and answers: the evaluator's session, whether the
\* evaluator ran an aggregation for the state, the response, and whether the
\* evaluator's evaluate_candidate was called
Routed(ce, ran, response, called) ==
    [ce |-> ce, ran |-> ran, response |-> response, called |-> called]

\* route /api/evaluate, lines 155-178: the evaluation of the saved files
EvaluateUploads(ce, m, dsk, resume_file, cgpa, video_file) ==
    LET r == evaluate_candidate(ce, m, dsk,
                 [resume_path |-> Path(resume_file.file), cgpa |-> Float(cgpa),
                  video_path |-> Path(video_file.file),
                  resume_result |-> PyNone, video_result |-> PyNone])
    IN  Routed(r.ce, FALSE,
               IF r.raised THEN ErrorResponse(500, "predict raised")
               ELSE JsonResponse(r.value),
               TRUE)

\* route /api/evaluate
evaluate_candidate_route(ce, m, dsk, request) ==
    IF "resume" \notin DOMAIN request.files
    THEN Routed(ce, FALSE, ErrorResponse(400, "Resume file missing"), FALSE)
    ELSE IF "video" \notin DOMAIN request.files
    THEN Routed(ce, FALSE, ErrorResponse(400, "Video file missing"), FALSE)
    ELSE IF "cgpa" \notin DOMAIN request.form
    THEN Routed(ce, FALSE, ErrorResponse(400, "CGPA value missing"), FALSE)
    ELSE LET resume_file == request.files["resume"]
             video_file == request.files["video"]
             cgpa == ParseFloat(request.form["cgpa"])
         IN  IF ~cgpa.ok
             THEN Routed(ce, FALSE, ErrorResponse(400, "Invalid CGPA value"), FALSE)
             ELSE IF resume_file.filename = <<>> \/ video_file.filename = <<>>
             THEN Routed(ce, FALSE, ErrorResponse(400, "Empty filename"), FALSE)
             ELSE IF ~(allowed_file(resume_file.filename)
                         /\ allowed_file(video_file.filename))
             THEN Routed(ce, FALSE, ErrorResponse(400, "File type not allowed"), FALSE)
             ELSE EvaluateUploads(ce, m, dsk, resume_file, cgpa.value, video_file)

\* analyze_resume_route running the upload through the shared evaluator
analyze_resume_route_OnEvaluator(ce, m, dsk, request) ==
    IF "file" \notin DOMAIN request.files
    THEN Routed(ce, FALSE, ErrorResponse(400, "No file part"), FALSE)
    ELSE LET file == request.files["file"]
         IN  IF file.filename = <<>>
             THEN Routed(ce, FALSE, ErrorResponse(400, "No selected file"), FALSE)
             ELSE IF allowed_file(file.filename)
             THEN Routed(evaluate_candidate(ce, m, dsk,
                            [resume_path |-> Path(file.file), cgpa |-> PyNone,
                             video_path |-> PyNone, resume_result |-> PyNone,
                             video_result |-> PyNone]).ce,
                         FALSE, JsonResponse(analyze_resume(file.file, dsk.resume)), FALSE)
             ELSE Routed(ce, FALSE, ErrorResponse(400, "File type not allowed"), FALSE)

\* route /api/analyze_resume: the module's resume_analyzer analyses the file
analyze_resume_route(ce, m, dsk, request) ==
    IF "file" \notin DOMAIN request.files
    THEN Routed(ce, FALSE, ErrorResponse(400, "No file part"), FALSE)
    ELSE LET file == request.files["file"]
         IN  IF file.filename = <<>>
             THEN Routed(ce, FALSE, ErrorResponse(400, "No selected file"), FALSE)
             ELSE IF allowed_file(file.filename)
             THEN Routed(ce, FALSE, JsonResponse(analyze_resume(file.file, dsk.resume)), FALSE)
             ELSE Routed(ce, FALSE, ErrorResponse(400, "File type not allowed"), FALSE)

\* route /api/analyze_video: the module's video_analyzer analyses the file
analyze_video_route(ce, m, dsk, request) ==
    IF "file" \notin DOMAIN request.files
    THEN Routed(ce, FALSE, ErrorResponse(400, "No file part"), FALSE)
    ELSE LET file == request.files["file"]
         IN  IF file.filename = <<>>
             THEN Routed(ce, FALSE, ErrorResponse(400, "No selected file"), FALSE)
             ELSE IF allowed_file(file.filename)
             THEN Routed(ce, FALSE,
                         JsonResponse(analyze_video(file.file, dsk.fluency, dsk.vocabulary)),
                         FALSE)
             ELSE Routed(ce, FALSE, ErrorResponse(400, "File type not allowed"), FALSE)

\* route /api/evaluation_state for the outcome r of get_evaluation_state
StateResponse(r) ==
    Routed(r.ce, r.ran,
           IF r.raised THEN ErrorResponse(500, "Failed to get evaluation state")
           ELSE JsonResponse(r.ce),
           FALSE)

\* route /api/evaluation_state
get_evaluation_state_route(ce, m, dsk, request) ==
    StateResponse(get_evaluation_state(ce, m, dsk))

\* route /api/reset_evaluation
reset_evaluation_route(ce, m, dsk, request) ==
    Routed(reset_evaluation(ce), FALSE,
           [status |-> 200, message |-> "Evaluation reset successfully",
            state |-> reset_evaluation(ce)],
           FALSE)

\* the uploads of the requests
ResumeUploads ==
    {Upload(<<"cv", ".", "pdf">>, "senior_pdf"),
     Upload(<<"cv", ".", "v2", ".", "docx">>, "junior_docx"),
     Upload(<<>>, "senior_pdf"),
     Upload(<<"cv", ".", "exe">>, "notes_txt")}

VideoUploads ==
    {Upload(<<"talk", ".", "MP4">>, "interview_mp4"),
     Upload(<<>>, "interview_mp4"),
     Upload(<<"talk">>, "silent_mov")}

CgpaFields == {"8.5", "0", "abc", ""}

\* a dict with the entries of d whose value is not left out
Present(d) == [k \in {j \in DOMAIN d : d[j] # PyNone} |-> d[k]]

\* the requests to /api/evaluate: every field present or missing
EvaluateRequests ==
    {[files |-> Present([resume |-> r, video |-> v]),
      form |-> IF c = "missing" THEN EmptyDict ELSE [cgpa |-> c]] :
        r \in ResumeUploads \cup {PyNone}, v \in VideoUploads \cup {PyNone},
        c \in CgpaFields \cup {"missing"}}

\* the requests to /api/analyze_resume and /api/analyze_video
AnalyzeResumeRequests ==
    {[files |-> Present([file |-> f]), form |-> EmptyDict] :
        f \in ResumeUploads \cup {PyNone}}

AnalyzeVideoRequests ==
    {[files |-> Present([file |-> f]), form |-> EmptyDict] :
        f \in VideoUploads \cup {PyNone}}

\* the request without files or form of a GET or a bare POST
BareRequest == [files |-> EmptyDict, form |-> EmptyDict]

\* the server answered the request to the route name with the outcome r
Serve(name, request, r) ==
    /\ r.ran => lazy_evals < MaxLazyEvals
    /\ current_evaluation' = r.ce
    /\ op' = name
    /\ input' = request
    /\ ret' = r.response
    /\ raised' = FALSE
    /\ call_complete' = r.called
    /\ lazy_evals' = IF name = "/api/reset_evaluation" THEN 0
                     ELSE IF r.ran THEN lazy_evals + 1 ELSE lazy_evals
    /\ UNCHANGED <<model, disk, supplied, reader>>

ApiEvaluate(request) ==
    Serve("/api/evaluate", request,
          evaluate_candidate_route(current_evaluation, model, disk, request))

ApiAnalyzeResume(request) ==
    Serve("/api/analyze_resume", request,
          analyze_resume_route(current_evaluation, model, disk, request))

ApiAnalyzeVideo(request) ==
    Serve("/api/analyze_video", request,
          analyze_video_route(current_evaluation, model, disk, request))

ApiEvaluationState ==
    Serve("/api/evaluation_state", BareRequest,
          get_evaluation_state_route(current_evaluation, model, disk, BareRequest))

ApiResetEvaluation ==
    Serve("/api/reset_evaluation", BareRequest,
          reset_evaluation_route(current_evaluation, model, disk, BareRequest))

NextApi ==
    \/ \E request \in EvaluateRequests : ApiEvaluate(request)
    \/ \E request \in AnalyzeResumeRequests : ApiAnalyzeResume(request)
    \/ \E request \in AnalyzeVideoRequests : ApiAnalyzeVideo(request)
    \/ ApiEvaluationState
    \/ ApiResetEvaluation

SpecApi == Init /\ [][NextApi]_vars

-----------------------------------------------------------------------------
(* Properties of the session *)

\* an incomplete marker as evaluate_candidate returns it: the error entry and
\* the three presence flags, no score and no recommendation
IsIncompleteMarker(d) ==
    DOMAIN d = {"error", "resume_processed", "video_processed", "cgpa_provided"}

\* a complete evaluation result
IsEvaluationResult(d) ==
    DOMAIN d = {"overall_score", "component_scores", "recommendation",
                "detailed_feedback", "transcription"}

\* C1: from every reachable session state reset_evaluation leaves the empty
\* session (both flags false, resume_data, video_data, cgpa and overall_result
\* unset), and a get_evaluation_state that follows the reset still returns the
\* empty session.
C1_ResetYieldsEmpty ==
    [][/\ op' = "reset_evaluation" =>
            /\ current_evaluation' = EmptyEvaluation
            /\ ret' = SessionRef /\ ~raised'
       /\ (op = "reset_evaluation" /\ op' = "get_evaluation_state") =>
            /\ current_evaluation' = EmptyEvaluation
            /\ ret' = SessionRef /\ ~raised']_vars

\* reset_evaluation has run and returned the empty session
C1_Witness ==
    /\ op = "reset_evaluation"
    /\ current_evaluation = EmptyEvaluation
    /\ ret = SessionRef

\* C4: without a reset, no call clears a session input that is set: the
\* resume flag and data, the video flag and data and the cgpa stay set across
\* every evaluate_candidate and get_evaluation_state, also when the call
\* omits that input.
C4_InputsStaySet ==
    [][op' # "reset_evaluation" =>
         /\ current_evaluation.resume_processed => current_evaluation'.resume_processed
         /\ current_evaluation.resume_data # PyNone =>
                current_evaluation'.resume_data # PyNone
         /\ current_evaluation.video_processed => current_evaluation'.video_processed
         /\ current_evaluation.video_data # PyNone =>
                current_evaluation'.video_data # PyNone
         /\ current_evaluation.cgpa # PyNone => current_evaluation'.cgpa # PyNone]_vars

\* a call that passed no cgpa returned, and the session still holds the cgpa,
\* the resume and the video of earlier calls
C4_Witness ==
    /\ op = "evaluate_candidate"
    /\ IsIncompleteMarker(ret)
    /\ ~ret.cgpa_provided
    /\ current_evaluation.cgpa # PyNone
    /\ current_evaluation.resume_data # PyNone
    /\ current_evaluation.video_data # PyNone

\* C5: an evaluate_candidate call that does not supply all three of resume,
\* cgpa and video returns the incomplete marker (an error entry and the
\* presence flags, nothing else), does not raise, and leaves overall_result
\* as it was.
C5_IncompleteCallReturnsMarker ==
    [][(op' = "evaluate_candidate" /\ ~call_complete') =>
          /\ ~raised'
          /\ IsIncompleteMarker(ret')
          /\ current_evaluation'.overall_result = current_evaluation.overall_result]_vars

\* an incomplete call returned its marker on a session that holds a cached
\* overall result
C5_Witness ==
    /\ op = "evaluate_candidate"
    /\ ~call_complete
    /\ IsIncompleteMarker(ret)
    /\ current_evaluation.overall_result # PyNone

\* C2: with resume, video and cgpa in the session and no result cached,
\* get_evaluation_state computes the overall result and stores it in the
\* session; until the next reset the cached result stays the same on every
\* read, and the aggregation runs at most once between two resets.
C2_LazyEvaluationOnce ==
    [][/\ (NeedsEvaluation(current_evaluation) /\ op' = "get_evaluation_state") =>
            /\ ~raised'
            /\ ret' = SessionRef
            /\ current_evaluation'.overall_result # PyNone
       /\ (current_evaluation.overall_result # PyNone /\ op' # "reset_evaluation") =>
            current_evaluation'.overall_result = current_evaluation.overall_result
       /\ lazy_evals' <= 1]_vars

\* C6: the incomplete marker reports what the session holds after the call:
\* resume_processed iff the session holds resume data, video_processed iff it
\* holds video data, cgpa_provided iff it holds a cgpa, inputs of earlier
\* calls included.
C6_MarkerReportsSession ==
    (op = "evaluate_candidate" /\ ~raised /\ IsIncompleteMarker(ret)) =>
        /\ ret.resume_processed = (current_evaluation.resume_data # PyNone)
        /\ ret.video_processed = (current_evaluation.video_data # PyNone)
        /\ ret.cgpa_provided = (current_evaluation.cgpa # PyNone)

\* a score in [0, 1]
InUnit(x) == 0 <= x /\ x <= One

\* C7: every complete evaluation, returned by evaluate_candidate or cached by
\* get_evaluation_state, has its overall_score in [0, 1], with a trained
\* aggregator loaded and without one.
C7_OverallScoreInUnit ==
    /\ (op = "evaluate_candidate" /\ ~raised /\ IsEvaluationResult(ret)) =>
            InUnit(ret.overall_score)
    /\ current_evaluation.overall_result # PyNone =>
            InUnit(current_evaluation.overall_result.overall_score)

\* C9: a cached overall_result is the evaluation of the resume_data, the
\* video_data and the cgpa the session holds now.
C9_ResultOfCurrentInputs ==
    current_evaluation.overall_result # PyNone =>
        current_evaluation.overall_result =
            CompleteEvaluation(model, current_evaluation.resume_data,
                               current_evaluation.cgpa,
                               current_evaluation.video_data).value

\* the overall score of the result d is the weighted average of its four
\* component scores
IsWeightedAverage(d) ==
    d.overall_score =
        _calculate_weighted_score(d.component_scores.resume_score,
                                  d.component_scores.academic_score,
                                  d.component_scores.fluency_score,
                                  d.component_scores.vocabulary_score)

\* C10: with the aggregator artifact missing, failing to load, or raising in
\* predict, no call raises, a complete evaluate_candidate returns an
\* evaluation result, a read of a complete session caches one, and the
\* overall_score of each is the weighted average of the component scores.
C10_AggregatorFaultFallsBack ==
    disk.evaluation \in {ArtifactAbsent, ArtifactCorrupt, ArtifactOf(FaultyModel)} =>
        /\ ~raised
        /\ (op = "evaluate_candidate" /\ call_complete) =>
                IsEvaluationResult(ret) /\ IsWeightedAverage(ret)
        /\ current_evaluation.overall_result # PyNone =>
                IsWeightedAverage(current_evaluation.overall_result)

\* the resume result, the cgpa and the video result have all been handed over
AllSupplied ==
    /\ supplied.resume # PyNone
    /\ supplied.cgpa # PyNone
    /\ supplied.video # PyNone

\* the one call that hands over together what the three calls handed over
TogetherArgs ==
    [NoArgs EXCEPT !.resume_result = supplied.resume,
                   !.cgpa = supplied.cgpa,
                   !.video_result = supplied.video]

\* the read of the session ended as the call that returned one did, and with
\* the same overall score
SameOutcome(one) ==
    /\ raised = one.raised
    /\ ~raised =>
        /\ current_evaluation.overall_result # PyNone
        /\ IsEvaluationResult(one.value)
        /\ current_evaluation.overall_result.overall_score = one.value.overall_score

\* C3: from the empty session, after the resume result, the video result and
\* the cgpa were handed over by three separate calls in any order, the
\* overall_result a get_evaluation_state leaves has the overall_score that one
\* evaluate_candidate call on the empty session returns for all three
\* together.
C3_OrderIndependent ==
    (AllSupplied /\ op = "get_evaluation_state") =>
        SameOutcome(evaluate_candidate(EmptyEvaluation, model, disk, TogetherArgs))

\* the resume result, the video result and the cgpa 8.5 were handed over one
\* by one, and the read cached a result with a score above zero
C3_Witness ==
    /\ AllSupplied
    /\ op = "get_evaluation_state"
    /\ ~raised
    /\ current_evaluation.overall_result # PyNone
    /\ current_evaluation.overall_result.overall_score > 0
    /\ current_evaluation.cgpa = Float(85000)

\* C8: every score a scorer returns, the resume score of analyze_resume, the
\* fluency score of assess_fluency and the vocabulary score of
\* assess_vocabulary, lies in [0, 1], on the trained-model path for whatever
\* predict returns and on the rule-based and fault paths for every input.
C8_DomainScoresInUnit ==
    op \in {"analyze_resume", "assess_fluency", "assess_vocabulary"} =>
        InUnit(ret.score)

\* the artifact is on disk, and loading it or calling predict raises
IsFaultArtifact(art) == art \in {ArtifactCorrupt, ArtifactOf(FaultyModel)}

\* C11: when a scorer's artifact is present and loading it or predict
\* raises, the scorer does not raise and returns the score of its rule-based
\* path (the one taken when the artifact is absent) for the same input; for
\* the resume, the fluency and the vocabulary scorer.
C11_FaultFallsBackToRules ==
    /\ (op = "analyze_resume" /\ IsFaultArtifact(disk.resume)) =>
            ~raised /\ ret.score = AnalyzeText(input, ArtifactAbsent).score
    /\ (op = "assess_fluency" /\ IsFaultArtifact(disk.fluency)) =>
            ~raised /\ ret.score = assess_fluency(input, ArtifactAbsent).score
    /\ (op = "assess_vocabulary" /\ IsFaultArtifact(disk.vocabulary)) =>
            ~raised /\ ret.score = assess_vocabulary(input, ArtifactAbsent).score

\* C12: a scorer keeps for its lifetime the path it had at construction: the
\* analyzers were constructed with no artifact on disk, so every call scores
\* by the rules, whatever artifact has appeared on disk since.
C12_PathFixedAtConstruction ==
    /\ op = "analyze_resume" =>
            ret.score = AnalyzeText(input, NoScorerModels.resume).score
    /\ op = "assess_fluency" =>
            ret.score = assess_fluency(input, NoScorerModels.fluency).score
    /\ op = "assess_vocabulary" =>
            ret.score = assess_vocabulary(input, NoScorerModels.vocabulary).score

\* the component scores 0.8, 0.5, 0.6 and 0.6 (the cgpa 5.0 on the scale 10)
ExampleScores ==
    [resume_score |-> 8000, cgpa |-> 50000, fluency_score |-> 6000,
     vocabulary_score |-> 6000]

\* 0.3 resume + 0.2 academic + 0.25 fluency + 0.25 vocabulary for the
\* component scores cs
FixedWeightedAverage(cs) ==
    (3000 * cs.resume_score + 2000 * cs.academic_score
       + 2500 * cs.fluency_score + 2500 * cs.vocabulary_score) \div One

\* the fallback weights are 0.3, 0.2, 0.25 and 0.25 and sum to 1.0; without
\* an aggregator model the overall score of an evaluation of pre-analysed
\* scores is their weighted average, and for the example scores it is
\* example_result
WeightedAggregation(example_result) ==
    /\ default_weights = [resume |-> 3000, academic |-> 2000,
                          video_fluency |-> 2500, video_vocabulary |-> 2500]
    /\ default_weights.resume + default_weights.academic
         + default_weights.video_fluency + default_weights.video_vocabulary = One
    /\ (op = "evaluate_candidate" /\ model = PyNone /\ input \in ScoreInputs) =>
            /\ ~raised
            /\ IsEvaluationResult(ret)
            /\ ret.component_scores.resume_score = input.resume_score
            /\ ret.component_scores.fluency_score = input.fluency_score
            /\ ret.component_scores.vocabulary_score = input.vocabulary_score
            /\ ret.overall_score = FixedWeightedAverage(ret.component_scores)
            /\ input = ExampleScores => ret.overall_score = example_result

\* C13 as stated: the fallback weights are 0.3, 0.2, 0.25, 0.25 and sum to
\* 1.0, without an aggregator model overall_score is the weighted average of
\* the component scores, and for the scores (0.8, 0.5, 0.6, 0.6) it is 0.615.
C13_WeightedAverageAsStated == WeightedAggregation(6150)

\* C13, amended: the fallback weights are 0.3, 0.2, 0.25, 0.25 and sum to
\* 1.0, without an aggregator model overall_score is the weighted average of
\* the component scores, and for the scores (0.8, 0.5, 0.6, 0.6) it is 0.64.
C13_WeightedAverage == WeightedAggregation(6400)

\* without an aggregator model the example scores were evaluated to 0.64
C13_Witness ==
    /\ op = "evaluate_candidate"
    /\ model = PyNone
    /\ input = ExampleScores
    /\ ~raised
    /\ ret.overall_score = 6400

\* x limited to [lo, hi]
Clamp(x, lo, hi) == IF x < lo THEN lo ELSE IF x > hi THEN hi ELSE x

\* C14: normalize_cgpa(cgpa, scale) is clamp(cgpa, 0, scale) / scale, so it
\* lies in [0, 1], is 1.0 above the scale and 0.0 below zero; and
\* evaluate_candidate does not reject a cgpa outside the range: it completes
\* with the clamped academic_score (it raises only with an aggregator whose
\* predict raises, whatever the cgpa).
C14_CgpaClamped ==
    /\ op = "normalize_cgpa" =>
            /\ ret.float = Ratio(Clamp(input.cgpa, 0, input.scale), input.scale)
            /\ InUnit(ret.float)
            /\ input.cgpa >= input.scale => ret.float = One
            /\ input.cgpa <= 0 => ret.float = 0
    /\ (op = "evaluate_candidate" /\ input \in ScoreInputs) =>
            /\ raised => model = FaultyModel
            /\ ~raised =>
                /\ IsEvaluationResult(ret)
                /\ ret.component_scores.academic_score =
                        Ratio(Clamp(input.cgpa, 0, DefaultScale), DefaultScale)
                /\ InUnit(ret.component_scores.academic_score)

\* evaluate_candidate completed for the cgpa -3.0 with the academic score 0.0
C14_Witness ==
    /\ op = "evaluate_candidate"
    /\ input \in ScoreInputs
    /\ input.cgpa = 0 - 30000
    /\ ~raised
    /\ ret.component_scores.academic_score = 0

\* the tier of an overall score: half-open intervals, inclusive below
RecommendationAt(score) ==
    CASE score >= 8000                  -> "Strong Recommendation"
      [] score >= 7000 /\ score < 8000  -> "Positive Recommendation"
      [] score >= 6000 /\ score < 7000  -> "Moderate Recommendation"
      [] score < 6000                   -> "Not Recommended"

\* the tiers from the lowest to the highest
TierRank(recommendation) ==
    CASE recommendation = "Not Recommended"         -> 0
      [] recommendation = "Moderate Recommendation" -> 1
      [] recommendation = "Positive Recommendation" -> 2
      [] recommendation = "Strong Recommendation"   -> 3

\* C15: the recommendation depends on overall_score only, by half-open tiers
\* inclusive at the lower bound (>= 0.8 Strong, [0.7, 0.8) Positive,
\* [0.6, 0.7) Moderate, < 0.6 Not Recommended); every score has one tier, a
\* higher score never has a lower tier, and 0.8 is Strong, 0.7999 (the score
\* next below 0.8) Positive, 0.6 Moderate, 0.1 Not Recommended.
C15_RecommendationTiers ==
    /\ op = "_generate_recommendation" =>
            /\ ret.recommendation = RecommendationAt(input.overall_score)
            /\ \A higher \in ScoreGrid :
                    higher >= input.overall_score =>
                        TierRank(_generate_recommendation(higher, input.resume_score,
                                    input.academic_score, input.fluency_score,
                                    input.vocabulary_score))
                            >= TierRank(ret.recommendation)
            /\ input.overall_score = 8000 => ret.recommendation = "Strong Recommendation"
            /\ input.overall_score = 7999 => ret.recommendation = "Positive Recommendation"
            /\ input.overall_score = 6000 => ret.recommendation = "Moderate Recommendation"
            /\ input.overall_score = 1000 => ret.recommendation = "Not Recommended"
    /\ (op = "evaluate_candidate" /\ ~raised /\ IsEvaluationResult(ret)) =>
            ret.recommendation = RecommendationAt(ret.overall_score)

\* the score 0.8 was given the Strong tier although every component score
\* passed along is 0.0
C15_Witness ==
    /\ op = "_generate_recommendation"
    /\ input.overall_score = 8000
    /\ input.resume_score = 0 /\ input.academic_score = 0
    /\ input.fluency_score = 0 /\ input.vocabulary_score = 0
    /\ ret.recommendation = "Strong Recommendation"

\* the feedback text of a domain for its score: one of three, by the
\* thresholds 0.8 and 0.6
FeedbackAt(score) ==
    CASE score >= 8000                 -> "high"
      [] score >= 6000 /\ score < 8000 -> "medium"
      [] score < 6000                  -> "low"

\* C16: each of the four feedback texts depends on its own domain's score
\* only, whatever the other three scores are, and is one of three texts
\* chosen by score >= 0.8, 0.6 <= score < 0.8 and score < 0.6.
C16_FeedbackPerDomain ==
    (op = "evaluate_candidate" /\ input \in ScoreInputs /\ ~raised) =>
        /\ ret.detailed_feedback.resume = FeedbackAt(input.resume_score)
        /\ ret.detailed_feedback.academic =
                FeedbackAt(ret.component_scores.academic_score)
        /\ ret.detailed_feedback.fluency = FeedbackAt(input.fluency_score)
        /\ ret.detailed_feedback.vocabulary = FeedbackAt(input.vocabulary_score)

\* an evaluation with a different text for every score: resume 0.8 high,
\* fluency 0.5999 low, vocabulary 0.6 medium
C16_Witness ==
    /\ op = "evaluate_candidate"
    /\ input \in ScoreInputs
    /\ ~raised
    /\ input.resume_score = 8000 /\ ret.detailed_feedback.resume = "high"
    /\ input.fluency_score = 5999 /\ ret.detailed_feedback.fluency = "low"
    /\ input.vocabulary_score = 6000 /\ ret.detailed_feedback.vocabulary = "medium"

\* C17: analyze_resume returns the score 0.0 with an error marker if and only
\* if the extracted text is empty; the result for a non-empty text has no
\* error marker, also when its score is 0.0.
C17_ErrorMarkerIffEmptyText ==
    op = "analyze_resume" =>
        /\ ("error" \in DOMAIN ret) <=> input.empty
        /\ input.empty => ret.score = 0

\* a text without skills, experience or degree was scored 0.0 by the rules
\* and carries no error marker
C17_Witness ==
    /\ op = "analyze_resume"
    /\ ~input.empty
    /\ ret.score = 0
    /\ "error" \notin DOMAIN ret

\* C18: every element of the feature vector of extract_ml_features lies in
\* [0, 1], for any number of matched skills up to the whole keyword list of
\* each category, any experience, education level, number of sections found
\* and word count.
C18_ResumeFeaturesInUnit ==
    op = "extract_ml_features" =>
        \A i \in DOMAIN ret.features : InUnit(ret.features[i])

\* C19: extract_speech_features returns seven elements, all in [0, 1] for
\* every transcript, also one with more filler strings than words, and all
\* zero for a transcript without sentences or without alphabetic words.
C19_SpeechFeaturesInUnit ==
    op = "extract_speech_features" =>
        /\ Len(ret.features) = 7
        /\ \A i \in DOMAIN ret.features : InUnit(ret.features[i])
        /\ (input.transcription.sentences = 0 \/ input.transcription.alpha_words = 0) =>
                \A i \in DOMAIN ret.features : ret.features[i] = 0

\* C20: on the empty transcript assess_fluency and assess_vocabulary return
\* without raising a score in [0, 1], and a repeated call returns the same
\* result.
C20_EmptyTranscriptScored ==
    [][(op' \in {"assess_fluency", "assess_vocabulary"} /\ input' = EmptyTranscript) =>
          /\ ~raised'
          /\ InUnit(ret'.score)
          /\ (op = op' /\ input = input') => ret' = ret]_vars

\* the four component scores in the order the aggregator is trained on
FourScores(cs) ==
    <<cs.resume_score, cs.academic_score, cs.fluency_score, cs.vocabulary_score>>

\* C21: with a trained aggregator loaded, the vector a complete
\* evaluate_candidate call passes to predict is the four component scores
\* [resume_score, academic_score, fluency_score, vocabulary_score] in that
\* order, the inputs the aggregator is trained on, and nothing else.
C21_PredictGetsFourScores ==
    (op = "evaluate_candidate" /\ call_complete /\ model # PyNone) =>
        \E cs \in {ComponentScores(current_evaluation.resume_data,
                                   current_evaluation.cgpa,
                                   current_evaluation.video_data)} :
            PredictArgument(cs, current_evaluation.resume_data,
                            current_evaluation.video_data) = FourScores(cs)

\* the degree levels from none found to the highest
DegreeRank(degree) ==
    CASE degree = "none"      -> 0
      [] degree = "associate" -> 1
      [] degree = "bachelors" -> 2
      [] degree = "masters"   -> 3
      [] degree = "phd"       -> 4

\* 0.3 * education for the fixed education value of a degree level: 1 for a
\* doctorate, 5/6, 2/3 and 1/2 for the levels below, 0 when none is found
WeightedEducation(degree) ==
    CASE degree = "phd"       -> 3000
      [] degree = "masters"   -> 2500
      [] degree = "bachelors" -> 2000
      [] degree = "associate" -> 1500
      [] degree = "none"      -> 0

\* 0.4 * min(skill_count / 20, 1) + 0.3 * min(experience_years / 10, 1)
\*   + 0.3 * education
CappedWeightedSum(skill_count, experience_years, degree) ==
    (4000 * Min(Ratio(skill_count, 20), One)
       + 3000 * Min(Ratio(experience_years, 10), One)) \div One
      + WeightedEducation(degree)

\* the text b has at least the skills, the experience and the degree of a
AtLeast(a, b) ==
    /\ SumSeq(a.skill_counts) <= SumSeq(b.skill_counts)
    /\ a.experience_years <= b.experience_years
    /\ DegreeRank(a.degree_level) <= DegreeRank(b.degree_level)

\* C22: with no resume model artifact the resume score is
\* 0.4 min(skill_count/20, 1) + 0.3 min(experience_years/10, 1)
\* + 0.3 education, with a fixed education value in [0, 1] per degree level
\* (0 when none is found); the score lies in [0, 1] and does not decrease
\* when the skill count, the experience or the degree level grows.
C22_RuleScoreCappedSum ==
    (op = "analyze_resume" /\ disk.resume = ArtifactAbsent) =>
        /\ ret.score = CappedWeightedSum(SumSeq(input.resume_text.skill_counts),
                                         input.resume_text.experience_years,
                                         input.resume_text.degree_level)
        /\ InUnit(ret.score)
        /\ WeightedEducation(input.resume_text.degree_level) \in 0..3000
        /\ \A more \in RuleTexts :
                AtLeast(input.resume_text, more) =>
                    ret.score <= AnalyzeText(more, disk.resume).score

\* a text with 60 skills, 40 years and a master's degree was scored
\* 0.4 + 0.3 + 0.25 by the rules
C22_Witness ==
    /\ op = "analyze_resume"
    /\ disk.resume = ArtifactAbsent
    /\ SumSeq(input.resume_text.skill_counts) = 60
    /\ input.resume_text.experience_years = 40
    /\ input.resume_text.degree_level = "masters"
    /\ ret.score = 9500

\* the end year of a range, the words present, current and now read as 2025
EndYear(m) == IF "word" \in DOMAIN m.end THEN 2025 ELSE m.end.year

\* the candidate values found in a text: every explicit number of years, and
\* the length of every range whose start is after 1950 and not after its end
Candidates(mentions) ==
    {mentions[i].n : i \in {j \in DOMAIN mentions : mentions[j].kind = "years"}}
      \cup {EndYear(mentions[i]) - mentions[i].start :
                i \in {j \in DOMAIN mentions :
                          /\ mentions[j].kind = "range"
                          /\ mentions[j].start > 1950
                          /\ mentions[j].start <= EndYear(mentions[j])}}

\* C23: calculate_experience_years returns the maximum of the candidate
\* values found in the text (each explicit "N years of experience" number and
\* each range length end - start, with present, current and now read as the
\* fixed current year, and ranges with start after end or start not after
\* 1950 discarded), never their sum or average; it returns 0 when nothing
\* matches, and never a negative value.
C23_ExperienceIsMaximum ==
    op = "calculate_experience_years" =>
        \E found \in {Candidates(input.mentions)} :
            /\ found # {} => /\ ret.float \in found
                             /\ \A c \in found : c <= ret.float
            /\ found = {} => ret.float = 0
            /\ ret.float >= 0

\* for "3 years of experience", 2018-2020 and 2015 to present the result is
\* the 10 years of the longest range, not the 15 of the sum
C23_Witness ==
    /\ op = "calculate_experience_years"
    /\ input.mentions = <<YearsMention(3), RangeMention("-", 2018, Year(2020)),
                          RangeMention("to", 2015, Word("present"))>>
    /\ ret = Float(10)

\* C24: as long as every call on the evaluator has run atomically, no state
\* has overall_result set while an input is missing, and a completed reset
\* leaves the empty session.  (With a reset_evaluation or an
\* evaluate_candidate running between the all-present check and the cache
\* write of get_evaluation_state this fails: C24_Witness.)
C24_SerializedAccessIsSafe ==
    ~reader.interleaved =>
        /\ current_evaluation.overall_result # PyNone => HasAllInputs(current_evaluation)
        /\ op = "reset_evaluation" => current_evaluation = EmptyEvaluation

\* a reset ran between the check and the cache write of a
\* get_evaluation_state call: the call has returned, and the session that
\* was reset holds an overall_result computed from the inputs of before the
\* reset, beside no resume, no video and no cgpa
C24_Witness ==
    /\ reader.interleaved
    /\ reader.pc = "idle"
    /\ op = "get_evaluation_state"
    /\ current_evaluation.overall_result # PyNone
    /\ ~current_evaluation.resume_processed
    /\ ~current_evaluation.video_processed
    /\ current_evaluation.cgpa = PyNone

\* the request has the field and its upload has no name or a name whose last
\* part after a dot is not an allowed extension
BadUpload(request, field) ==
    /\ field \in DOMAIN request.files
    /\ \/ request.files[field].filename = <<>>
       \/ "." \notin {request.files[field].filename[i] :
                            i \in DOMAIN request.files[field].filename}
       \/ request.files[field].filename[Len(request.files[field].filename)]
              \notin {"pdf", "PDF", "docx", "mp4", "MP4", "mov", "avi"}

\* the request fails the validation of /api/evaluate: the resume file, the
\* video file or the cgpa field is missing, the cgpa is not a number, a
\* filename is empty or an extension is not allowed
FailsValidation(request) ==
    \/ "resume" \notin DOMAIN request.files
    \/ "video" \notin DOMAIN request.files
    \/ "cgpa" \notin DOMAIN request.form
    \/ request.form["cgpa"] \notin {"8.5", "0", " 12 "}
    \/ BadUpload(request, "resume")
    \/ BadUpload(request, "video")

\* C25: a request to /api/evaluate that fails the validation (resume file,
\* video file or cgpa field missing, cgpa not parseable as a number, an empty
\* filename, a disallowed extension) is answered with an error and the
\* status 400, the evaluator is not called, and the evaluator's session is
\* what it was before the request.
C25_InvalidRequestRejected ==
    [][(op' = "/api/evaluate" /\ FailsValidation(input')) =>
          /\ ret'.status = 400
          /\ "error" \in DOMAIN ret'
          /\ ~call_complete'
          /\ current_evaluation' = current_evaluation
          /\ lazy_evals' = lazy_evals]_vars

\* a request whose cgpa is not a number was answered 400 while the session
\* holds a cached overall result
C25_Witness ==
    /\ op = "/api/evaluate"
    /\ "resume" \in DOMAIN input.files
    /\ "video" \in DOMAIN input.files
    /\ input.form = [cgpa |-> "abc"]
    /\ ret = ErrorResponse(400, "Invalid CGPA value")
    /\ current_evaluation.overall_result # PyNone

\* the routes that analyse one file
AnalyzeRoutes == {"/api/analyze_resume", "/api/analyze_video"}

\* C29: /api/analyze_resume and /api/analyze_video leave the evaluator's
\* session unchanged (they run on analyzers of their own), so the state
\* /api/evaluation_state returns after an analyze request is the one it
\* returned before; only /api/evaluate, /api/evaluation_state and
\* /api/reset_evaluation change the session.
C29_AnalyzeLeavesSession ==
    [][/\ op' \in AnalyzeRoutes =>
            /\ current_evaluation' = current_evaluation
            /\ model' = model
            /\ get_evaluation_state_route(current_evaluation', model', disk',
                                          BareRequest).response
                 = get_evaluation_state_route(current_evaluation, model, disk,
                                              BareRequest).response
       /\ current_evaluation' # current_evaluation =>
            op' \in {"/api/evaluate", "/api/evaluation_state", "/api/reset_evaluation"}]_vars

\* /api/analyze_resume analysed a resume, and the session holds the data of
\* another resume and a cached result
C29_Witness ==
    /\ op = "/api/analyze_resume"
    /\ ret.status = 200
    /\ "body" \in DOMAIN ret
    /\ current_evaluation.resume_processed
    /\ current_evaluation.resume_data # ret.body
    /\ current_evaluation.overall_result # PyNone

\* the session is well formed
WellFormed(ce) ==
    /\ ce.resume_processed <=> ce.resume_data # PyNone
    /\ ce.video_processed <=> ce.video_data # PyNone
    /\ ce.overall_result # PyNone =>
            /\ ce.resume_data # PyNone
            /\ ce.video_data # PyNone
            /\ ce.cgpa # PyNone

\* C26: in every state reachable by sequential calls of evaluate_candidate,
\* get_evaluation_state and reset_evaluation, resume_processed is true iff
\* resume_data is set, video_processed is true iff video_data is set, and
\* overall_result is set only if resume, video and cgpa are all present; a
\* get_evaluation_state on a session missing an input runs no aggregation
\* and leaves no overall result.
C26_SessionWellFormed ==
    /\ []WellFormed(current_evaluation)
    /\ [][(op' = "get_evaluation_state" /\ ~HasAllInputs(current_evaluation)) =>
              /\ lazy_evals' = lazy_evals
              /\ ~raised'
              /\ current_evaluation' = current_evaluation
              /\ current_evaluation'.overall_result = PyNone]_vars

\* get_evaluation_state returned on a session that holds a resume and a cgpa
\* but no video: no aggregation ran and there is no overall result
C26_Witness ==
    /\ op = "get_evaluation_state"
    /\ current_evaluation.resume_processed
    /\ current_evaluation.cgpa # PyNone
    /\ ~current_evaluation.video_processed
    /\ current_evaluation.overall_result = PyNone
    /\ lazy_evals = 0

\* the calls that supply the resume, the cgpa and the video
CompleteArgs == {a \in EvaluateArgs : SuppliesAll(a)}

\* what a call returns or raises, without the session it leaves
Outcome(r) == [raised |-> r.raised, value |-> r.value]

\* C27: what an evaluate_candidate call that supplies all three inputs
\* returns depends on its arguments and the loaded aggregator only: in every
\* reachable session state (empty, partly filled with another candidate's
\* data, or complete) the call returns what it returns on the empty session.
C27_ResultIndependentOfSession ==
    \A a \in CompleteArgs :
        Outcome(evaluate_candidate(current_evaluation, model, disk, a))
            = Outcome(evaluate_candidate(EmptyEvaluation, model, disk, a))

\* a complete call returned its result on a session that holds the cached
\* result of another candidate, with another overall score
C27_Witness ==
    /\ op = "evaluate_candidate"
    /\ call_complete
    /\ ~raised
    /\ current_evaluation.overall_result # PyNone
    /\ current_evaluation.overall_result.overall_score # ret.overall_score

\* C28: a cgpa of 0 counts as supplied: an evaluate_candidate call with
\* resume, video and cgpa 0.0 returns a full result with academic_score 0.0,
\* not the incomplete marker (it raises only with an aggregator whose predict
\* raises), and get_evaluation_state on a session with resume, video and
\* cgpa 0.0 and no result runs the lazy evaluation.
C28_ZeroCgpaIsSupplied ==
    [][/\ (op' = "evaluate_candidate" /\ call_complete'
              /\ current_evaluation'.cgpa = Float(0)) =>
            /\ raised' => model = FaultyModel
            /\ ~raised' =>
                /\ IsEvaluationResult(ret')
                /\ ret'.component_scores.academic_score = 0
       /\ (op' = "get_evaluation_state" /\ current_evaluation.resume_processed
              /\ current_evaluation.video_processed
              /\ current_evaluation.cgpa = Float(0)
              /\ current_evaluation.overall_result = PyNone) =>
            /\ lazy_evals' = lazy_evals + 1
            /\ raised' => model = FaultyModel
            /\ ~raised' =>
                /\ current_evaluation'.overall_result # PyNone
                /\ IsEvaluationResult(current_evaluation'.overall_result)
                /\ current_evaluation'.overall_result.component_scores.academic_score = 0]_vars

\* the read of a session with the cgpa 0.0 ran the lazy evaluation and
\* cached a result with the academic score 0.0
C28_Witness ==
    /\ op = "get_evaluation_state"
    /\ ~raised
    /\ lazy_evals = 1
    /\ current_evaluation.cgpa = Float(0)
    /\ current_evaluation.overall_result # PyNone
    /\ current_evaluation.overall_result.component_scores.academic_score = 0

====
